---- MODULE Spec2Model ----
(***************************************************************************)
(* Document lifecycle and approval workflow of the Flask application:      *)
(* routes/main.py (create, edit, submit, approve/reject, delete,           *)
(* attachment delete), utils.WorkflowEngine, the user management of        *)
(* routes/admin.py and the models they persist.                            *)
(***************************************************************************)
EXTENDS Integers, Sequences, FiniteSets, Bags, TLC

\* ---------------------------------------------------------------- bounds
MaxDocs == 1        \* documents that exist at the same time (Spec)
MaxHist == 3        \* rows of the approval_history table
MaxAtt == 1         \* attachment rows per document
MaxFiles == 1       \* files in one upload request
MaxReqs == 2        \* requests in flight at the same time (SpecConc)
MaxRoleRows == 2    \* times one role id is repeated in a posted roles list
MaxRefDocs == 3     \* documents that exist at the same time (SpecRef)

\* ------------------------------------------------------- value domains
DocTypes == {"NFA", "WorkOrder", "CostContract", "RevenueContract",
             "Agreement", "StatutoryDocument"}

Statuses == {"Draft", "Submitted", "Approved", "Rejected"}

Departments == {"D1", "D2"}

None == "None"

UserIds == {"e1", "h1", "h2", "ad"}

Comments == {"ok", "no"}

FormActions == {"approve", "reject"}

\* ------------------------------------------------------------- state
VARIABLES
    users,             \* users table: id -> [roles, department_id, is_active];
                       \* roles is the bag of the user's rows in user_roles
    docs,              \* the six document tables: id -> row
    attachments,       \* attachments table: document id -> number of rows
    approval_history,  \* approval_history table, in insertion order
    response,          \* outcome of the last request (flash message / error)
    req                \* requests in flight: position and session-local row

dbvars == <<users, docs, attachments, approval_history>>
vars == <<users, docs, attachments, approval_history, response, req>>

\* ------------------------------------------------ roles and permissions
role_permissions ==
    [admin |-> {"user_view", "user_create", "user_edit", "user_delete",
                "document_view", "document_create", "document_edit_all",
                "document_approve", "document_reject", "document_submit",
                "admin_access", "role_manage", "reports_view", "audit_view",
                "workflow_manage"},
     hod   |-> {"document_view", "document_create", "document_edit",
                "document_approve", "document_reject", "document_submit",
                "reports_view", "audit_view"},
     emp   |-> {"document_view", "document_create", "document_edit",
                "document_submit", "reports_view"}]

has_permission(u, permission) ==
    \E r \in BagToSet(users[u].roles) : permission \in role_permissions[r]

has_role(u, role_name) == role_name \in BagToSet(users[u].roles)

\* ------------------------------------------- approval_history columns
\* str.lower() on the module names the approve routes pass
ModuleLower ==
    [NFA |-> "nfa", WorkOrder |-> "workorder", CostContract |-> "costcontract",
     RevenueContract |-> "revenuecontract", Agreement |-> "agreement",
     StatutoryDocument |-> "statutorydocument"]

\* keyword the engine builds: f'{module_name.lower()}_id'
EngineFk(module_name) == ModuleLower[module_name] \o "_id"

\* document association columns of ApprovalHistory
HistoryColumns == {"nfa_id", "work_order_id", "cost_contract_id",
                   "revenue_contract_id", "agreement_id",
                   "statutory_document_id"}

\* keyword each submit route passes literally
SubmitFk ==
    [NFA |-> "nfa_id", WorkOrder |-> "work_order_id",
     CostContract |-> "cost_contract_id",
     RevenueContract |-> "revenue_contract_id", Agreement |-> "agreement_id",
     StatutoryDocument |-> "statutory_document_id"]

\* the declarative constructor raises TypeError on an unknown keyword
ConstructorAccepts(kw) == kw \in HistoryColumns

\* ------------------------------------------------------------ helpers
\* the request is answered in one piece: none is left in flight
Respond(m) == response' = m /\ UNCHANGED req

Exists(d) == d \in DOMAIN docs

HistoryOf(h, d) == SelectSeq(h, LAMBDA row : row.doc = d)

HistoryRow(action, actor, comments, d) ==
    [action |-> action, approved_by_id |-> actor, comments |-> comments,
     fk |-> SubmitFk[docs[d].type], doc |-> d]

\* primary key given to a new row (lowest free id)
NewId == CHOOSE d \in 1..(Cardinality(DOMAIN docs) + 1) :
             /\ d \notin DOMAIN docs
             /\ \A e \in 1..(d - 1) : e \in DOMAIN docs

\* get_department_choices(): the department the form resolves to
DepartmentChoices(u) ==
    IF has_role(u, "admin") THEN Departments \cup {None}
    ELSE {None}

\* a request in flight: the route it runs, its position, its inputs, the row
\* as the session loaded it (loaded, loaded_remarks) and as the session has
\* changed it (status, remarks)
IdleReq == [pc |-> "idle", route |-> None, actor |-> None, doc |-> 0,
            user |-> None,
            form_action |-> None, comments |-> None,
            loaded |-> None, loaded_remarks |-> None,
            status |-> None, remarks |-> None, result |-> None]

\* one employee, the head of his department, the head of another
\* department, and the administrator
InitUsers ==
    [u \in UserIds |->
        CASE u = "e1" -> [roles |-> SetToBag({"emp"}),
                          department_id |-> "D1", is_active |-> TRUE]
          [] u = "h1" -> [roles |-> SetToBag({"hod"}),
                          department_id |-> "D1", is_active |-> TRUE]
          [] u = "h2" -> [roles |-> SetToBag({"hod"}),
                          department_id |-> "D2", is_active |-> TRUE]
          [] u = "ad" -> [roles |-> SetToBag({"admin"}),
                          department_id |-> "D2", is_active |-> TRUE]]

Init ==
    /\ req = [r \in 1..MaxReqs |-> IdleReq]
    /\ users = InitUsers
    /\ docs = [d \in {} |-> d]
    /\ attachments = [d \in {} |-> 0]
    /\ approval_history = <<>>
    /\ response = "none"

\* ------------------------------------------------------------- create
\* Reference numbers.  A positive number n stands for the generated text
\* '{TYPE}-{YYYYMM}-{n:05d}' of the current month, BlankRef for an empty
\* form field, SpacesRef for a field of spaces, TypedRef for a text typed
\* by the user that differs from every generated one.
BlankRef == 0

SpacesRef == -2

TypedRef == -1

RowsOfType(type) == {d \in DOMAIN docs : docs[d].type = type}

\* get_next_reference_number: count() + 1 rendered into the text
get_next_reference_number(module) == Cardinality(RowsOfType(module)) + 1

\* validators [Optional(), UniqueReferenceNumber(model)]: Optional ends the
\* chain for an empty or all-spaces field; TRUE when the field is accepted
UniqueReferenceNumber(type, data) ==
    \/ data \in {BlankRef, SpacesRef}
    \/ ~ \E d \in RowsOfType(type) : docs[d].reference_number = data

\* create on a table whose reference_number column is not unique
create_unconstrained(actor, type, dept_choice, valid, reference_number, files, saved) ==
    IF has_role(actor, "hod")
    THEN /\ Respond("create_refused_hod")
         /\ UNCHANGED dbvars
    ELSE IF ~valid
    THEN /\ Respond("form")
         /\ UNCHANGED dbvars
    ELSE IF ~UniqueReferenceNumber(type, reference_number)
    THEN /\ Respond("reference_exists")
         /\ UNCHANGED dbvars
    ELSE IF files = 0
    THEN /\ Respond("attachment_required")
         /\ UNCHANGED dbvars
    ELSE LET ref == IF reference_number # BlankRef THEN reference_number
                    ELSE get_next_reference_number(type)
         IN /\ docs' = (NewId :> [type |-> type,
                                  status |-> "Draft",
                                  reference_number |-> ref,
                                  created_by_id |-> actor,
                                  department_id |->
                                      IF dept_choice # None THEN dept_choice
                                      ELSE users[actor].department_id,
                                  rejected_remarks |-> None]) @@ docs
            /\ attachments' = (NewId :> saved) @@ attachments
            /\ Respond("created")
            /\ UNCHANGED <<users, approval_history>>

\* create without the uniqueness validator and on a table whose
\* reference_number column is not unique
create_unvalidated(actor, type, dept_choice, valid, reference_number, files, saved) ==
    IF has_role(actor, "hod")
    THEN /\ Respond("create_refused_hod")
         /\ UNCHANGED dbvars
    ELSE IF ~valid
    THEN /\ Respond("form")
         /\ UNCHANGED dbvars
    ELSE IF files = 0
    THEN /\ Respond("attachment_required")
         /\ UNCHANGED dbvars
    ELSE LET ref == IF reference_number # BlankRef THEN reference_number
                    ELSE get_next_reference_number(type)
         IN /\ docs' = (NewId :> [type |-> type,
                                  status |-> "Draft",
                                  reference_number |-> ref,
                                  created_by_id |-> actor,
                                  department_id |->
                                      IF dept_choice # None THEN dept_choice
                                      ELSE users[actor].department_id,
                                  rejected_remarks |-> None]) @@ docs
            /\ attachments' = (NewId :> saved) @@ attachments
            /\ Respond("created")
            /\ UNCHANGED <<users, approval_history>>

\* a create without the test of the hod role
create_by_anyone(actor, type, dept_choice, valid, reference_number, files, saved) ==
    IF ~valid
    THEN /\ Respond("form")
         /\ UNCHANGED dbvars
    ELSE IF ~UniqueReferenceNumber(type, reference_number)
    THEN /\ Respond("reference_exists")
         /\ UNCHANGED dbvars
    ELSE IF files = 0
    THEN /\ Respond("attachment_required")
         /\ UNCHANGED dbvars
    ELSE LET ref == IF reference_number # BlankRef THEN reference_number
                    ELSE get_next_reference_number(type)
         IN IF \E d \in RowsOfType(type) : docs[d].reference_number = ref
            THEN /\ Respond("server_error")
                 /\ UNCHANGED dbvars
            ELSE /\ docs' = (NewId :> [type |-> type,
                                       status |-> "Draft",
                                       reference_number |-> ref,
                                       created_by_id |-> actor,
                                       department_id |->
                                           IF dept_choice # None
                                           THEN dept_choice
                                           ELSE users[actor].department_id,
                                       rejected_remarks |-> None]) @@ docs
                 /\ attachments' = (NewId :> saved) @@ attachments
                 /\ Respond("created")
                 /\ UNCHANGED <<users, approval_history>>

\* nfa_create and its five copies.  valid: the validators of the other
\* fields pass; reference_number: the data of the form field.  The flush of
\* the new row raises IntegrityError when its reference number is in use
\* (the column is unique), before any file is saved.
create(actor, type, dept_choice, valid, reference_number, files, saved) ==
    IF has_role(actor, "hod")
    THEN /\ Respond("create_refused_hod")
         /\ UNCHANGED dbvars
    ELSE IF ~valid
    THEN /\ Respond("form")
         /\ UNCHANGED dbvars
    ELSE IF ~UniqueReferenceNumber(type, reference_number)
    THEN /\ Respond("reference_exists")
         /\ UNCHANGED dbvars
    ELSE IF files = 0
    THEN /\ Respond("attachment_required")
         /\ UNCHANGED dbvars
    ELSE LET ref == IF reference_number # BlankRef THEN reference_number
                    ELSE get_next_reference_number(type)
         IN IF \E d \in RowsOfType(type) : docs[d].reference_number = ref
            THEN /\ Respond("server_error")
                 /\ UNCHANGED dbvars
            ELSE /\ docs' = (NewId :> [type |-> type,
                                       status |-> "Draft",
                                       reference_number |-> ref,
                                       created_by_id |-> actor,
                                       department_id |->
                                           IF dept_choice # None
                                           THEN dept_choice
                                           ELSE users[actor].department_id,
                                       rejected_remarks |-> None]) @@ docs
                 /\ attachments' = (NewId :> saved) @@ attachments
                 /\ Respond("created")
                 /\ UNCHANGED <<users, approval_history>>

\* ------------------------------------------------------------- submit
\* submit that records the document's owner instead of the actor
submit_by_owner(actor, d) ==
    IF ~Exists(d)
    THEN /\ Respond("not_found")
         /\ UNCHANGED dbvars
    ELSE IF docs[d].status \notin {"Draft", "Rejected"}
    THEN /\ Respond("submit_bad_status")
         /\ UNCHANGED dbvars
    ELSE /\ Len(approval_history) < MaxHist
         /\ docs' = [docs EXCEPT ![d].status = "Submitted"]
         /\ approval_history' =
                Append(approval_history,
                       HistoryRow("Submitted", docs[d].created_by_id, None, d))
         /\ Respond("submitted")
         /\ UNCHANGED <<users, attachments>>

\* a submit that refuses only Approved documents
submit_again(actor, d) ==
    IF ~Exists(d)
    THEN /\ Respond("not_found")
         /\ UNCHANGED dbvars
    ELSE IF docs[d].status \notin {"Draft", "Rejected", "Submitted"}
    THEN /\ Respond("submit_bad_status")
         /\ UNCHANGED dbvars
    ELSE /\ Len(approval_history) < MaxHist
         /\ docs' = [docs EXCEPT ![d].status = "Submitted"]
         /\ approval_history' =
                Append(approval_history, HistoryRow("Submitted", actor, None, d))
         /\ Respond("submitted")
         /\ UNCHANGED <<users, attachments>>

\* nfa_submit and its five copies
submit(actor, d) ==
    IF ~Exists(d)
    THEN /\ Respond("not_found")
         /\ UNCHANGED dbvars
    ELSE IF docs[d].status \notin {"Draft", "Rejected"}
    THEN /\ Respond("submit_bad_status")
         /\ UNCHANGED dbvars
    ELSE /\ Len(approval_history) < MaxHist
         /\ docs' = [docs EXCEPT ![d].status = "Submitted"]
         /\ approval_history' =
                Append(approval_history, HistoryRow("Submitted", actor, None, d))
         /\ Respond("submitted")
         /\ UNCHANGED <<users, attachments>>

\* ---------------------------------------------------- WorkflowEngine
\* approve_document that also empties the remark of the last rejection
approve_document_clearing(d, approved_by_user, module_name, comments) ==
    /\ approval_history' =
           Append(approval_history,
                  [action |-> "Approved", approved_by_id |-> approved_by_user,
                   comments |-> comments, fk |-> EngineFk(module_name),
                   doc |-> d])
    /\ docs' = [docs EXCEPT ![d].status = "Approved",
                            ![d].rejected_remarks = None]

\* WorkflowEngine.approve_document
approve_document(d, approved_by_user, module_name, comments) ==
    /\ approval_history' =
           Append(approval_history,
                  [action |-> "Approved", approved_by_id |-> approved_by_user,
                   comments |-> comments, fk |-> EngineFk(module_name),
                   doc |-> d])
    /\ docs' = [docs EXCEPT ![d].status = "Approved"]

\* reject_document that writes the status in lower case
reject_document_lowercase(d, rejected_by_user, module_name, remarks) ==
    /\ approval_history' =
           Append(approval_history,
                  [action |-> "Rejected", approved_by_id |-> rejected_by_user,
                   comments |-> remarks, fk |-> EngineFk(module_name),
                   doc |-> d])
    /\ docs' = [docs EXCEPT ![d].status = "rejected",
                            ![d].rejected_remarks = remarks]

\* WorkflowEngine.reject_document
reject_document(d, rejected_by_user, module_name, remarks) ==
    /\ approval_history' =
           Append(approval_history,
                  [action |-> "Rejected", approved_by_id |-> rejected_by_user,
                   comments |-> remarks, fk |-> EngineFk(module_name),
                   doc |-> d])
    /\ docs' = [docs EXCEPT ![d].status = "Rejected",
                            ![d].rejected_remarks = remarks]

\* ----------------------------------------------------------- approve
\* approve without the test for Draft
approve_any_status(actor, d, form_action, comments) ==
    IF ~Exists(d)
    THEN /\ Respond("not_found")
         /\ UNCHANGED dbvars
    ELSE IF form_action \notin FormActions
    THEN /\ Respond("form")
         /\ UNCHANGED dbvars
    ELSE IF ~ConstructorAccepts(EngineFk(docs[d].type))
    THEN /\ Respond("server_error")
         /\ UNCHANGED dbvars
    ELSE /\ Len(approval_history) < MaxHist
         /\ IF form_action = "approve"
            THEN /\ approve_document(d, actor, docs[d].type, comments)
                 /\ Respond("approved")
            ELSE /\ reject_document(d, actor, docs[d].type, comments)
                 /\ Respond("rejected")
         /\ UNCHANGED <<users, attachments>>

\* nfa_approve and its five copies; form_action is the posted "action"
\* field ("" for a GET or an invalid form)
approve(actor, d, form_action, comments) ==
    IF ~Exists(d)
    THEN /\ Respond("not_found")
         /\ UNCHANGED dbvars
    ELSE IF docs[d].status = "Draft"
    THEN /\ Respond("approve_refused_draft")
         /\ UNCHANGED dbvars
    ELSE IF form_action \notin FormActions
    THEN /\ Respond("form")
         /\ UNCHANGED dbvars
    ELSE IF ~ConstructorAccepts(EngineFk(docs[d].type))
    THEN /\ Respond("server_error")
         /\ UNCHANGED dbvars
    ELSE /\ Len(approval_history) < MaxHist
         /\ IF form_action = "approve"
            THEN /\ approve_document(d, actor, docs[d].type, comments)
                 /\ Respond("approved")
            ELSE /\ reject_document(d, actor, docs[d].type, comments)
                 /\ Respond("rejected")
         /\ UNCHANGED <<users, attachments>>

\* --------------------------------------------------------------- edit
\* an edit that returns the document to Draft
edit_back_to_draft(actor, d, dept_choice, valid, files, saved, replacing, replaced) ==
    IF ~Exists(d)
    THEN /\ Respond("not_found")
         /\ UNCHANGED dbvars
    ELSE IF docs[d].status = "Approved" /\ ~has_role(actor, "admin")
    THEN /\ Respond("edit_refused_approved")
         /\ UNCHANGED dbvars
    ELSE IF ~valid
    THEN /\ Respond("form")
         /\ UNCHANGED dbvars
    ELSE IF files = 0 /\ attachments[d] = 0
    THEN /\ Respond("attachment_required")
         /\ UNCHANGED dbvars
    ELSE LET removed == [attachments EXCEPT ![replaced] = @ - 1]
             base    == IF replacing /\ replaced # 0 THEN removed
                        ELSE attachments
             added   == (IF replacing THEN 1 ELSE 0) + saved
         IN /\ replaced # 0 => (Exists(replaced) /\ attachments[replaced] > 0)
            /\ base[d] + added <= MaxAtt
            /\ attachments' = [base EXCEPT ![d] = @ + added]
            /\ docs' = IF docs[d].type = "NFA"
                       THEN [docs EXCEPT ![d].status = "Draft"]
                       ELSE [docs EXCEPT ![d].status = "Draft",
                                         ![d].department_id =
                                IF dept_choice # None THEN dept_choice
                                ELSE users[actor].department_id]
            /\ Respond("edited")
            /\ UNCHANGED <<users, approval_history>>

\* nfa_edit and its five copies.  replaced is the document owning the
\* attachment named by an old_attachment_id_* field when replacing (0: the
\* id names no row).
edit(actor, d, dept_choice, valid, files, saved, replacing, replaced) ==
    IF ~Exists(d)
    THEN /\ Respond("not_found")
         /\ UNCHANGED dbvars
    ELSE IF docs[d].status = "Approved" /\ ~has_role(actor, "admin")
    THEN /\ Respond("edit_refused_approved")
         /\ UNCHANGED dbvars
    ELSE IF ~valid
    THEN /\ Respond("form")
         /\ UNCHANGED dbvars
    ELSE IF files = 0 /\ attachments[d] = 0
    THEN /\ Respond("attachment_required")
         /\ UNCHANGED dbvars
    ELSE LET removed == [attachments EXCEPT ![replaced] = @ - 1]
             base    == IF replacing /\ replaced # 0 THEN removed
                        ELSE attachments
             added   == (IF replacing THEN 1 ELSE 0) + saved
         IN /\ replaced # 0 => (Exists(replaced) /\ attachments[replaced] > 0)
            /\ base[d] + added <= MaxAtt
            /\ attachments' = [base EXCEPT ![d] = @ + added]
            /\ docs' = IF docs[d].type = "NFA" THEN docs
                       ELSE [docs EXCEPT ![d].department_id =
                                IF dept_choice # None THEN dept_choice
                                ELSE users[actor].department_id]
            /\ Respond("edited")
            /\ UNCHANGED <<users, approval_history>>

\* ------------------------------------------------------------- delete
\* delete whose approvals relationship does not cascade
delete_keep_history(actor, d) ==
    IF ~Exists(d)
    THEN /\ Respond("not_found")
         /\ UNCHANGED dbvars
    ELSE IF docs[d].status = "Approved" /\ ~has_role(actor, "admin")
    THEN /\ Respond("delete_refused_approved")
         /\ UNCHANGED dbvars
    ELSE /\ docs' = [e \in DOMAIN docs \ {d} |-> docs[e]]
         /\ attachments' = [e \in DOMAIN docs \ {d} |-> attachments[e]]
         /\ Respond("deleted")
         /\ UNCHANGED <<users, approval_history>>

\* delete without the test for Approved
delete_any_status(actor, d) ==
    IF ~Exists(d)
    THEN /\ Respond("not_found")
         /\ UNCHANGED dbvars
    ELSE /\ docs' = [e \in DOMAIN docs \ {d} |-> docs[e]]
         /\ attachments' = [e \in DOMAIN docs \ {d} |-> attachments[e]]
         /\ approval_history' =
                SelectSeq(approval_history, LAMBDA row : row.doc # d)
         /\ Respond("deleted")
         /\ UNCHANGED users

\* delete that empties the whole approval_history table
delete_clear_history(actor, d) ==
    IF ~Exists(d)
    THEN /\ Respond("not_found")
         /\ UNCHANGED dbvars
    ELSE IF docs[d].status = "Approved" /\ ~has_role(actor, "admin")
    THEN /\ Respond("delete_refused_approved")
         /\ UNCHANGED dbvars
    ELSE /\ docs' = [e \in DOMAIN docs \ {d} |-> docs[e]]
         /\ attachments' = [e \in DOMAIN docs \ {d} |-> attachments[e]]
         /\ approval_history' = <<>>
         /\ Respond("deleted")
         /\ UNCHANGED users

\* nfa_delete and its five copies; attachments and approvals cascade
delete(actor, d) ==
    IF ~Exists(d)
    THEN /\ Respond("not_found")
         /\ UNCHANGED dbvars
    ELSE IF docs[d].status = "Approved" /\ ~has_role(actor, "admin")
    THEN /\ Respond("delete_refused_approved")
         /\ UNCHANGED dbvars
    ELSE /\ docs' = [e \in DOMAIN docs \ {d} |-> docs[e]]
         /\ attachments' = [e \in DOMAIN docs \ {d} |-> attachments[e]]
         /\ approval_history' =
                SelectSeq(approval_history, LAMBDA row : row.doc # d)
         /\ Respond("deleted")
         /\ UNCHANGED users

\* delete_attachment; d is the document the attachment row belongs to
\* (0: the id names no row)
delete_attachment(actor, d) ==
    IF d = 0
    THEN /\ Respond("not_found")
         /\ UNCHANGED dbvars
    ELSE /\ Exists(d)
         /\ attachments[d] > 0
         /\ attachments' = [attachments EXCEPT ![d] = @ - 1]
         /\ Respond("attachment_deleted")
         /\ UNCHANGED <<users, docs, approval_history>>

\* ------------------------------------------------------------ listings
\* nfa_list and its five copies, a GET that changes nothing: the ids of the
\* rows the query returns for user u, whose role names are user_roles.
\* status is the status argument ("": none); matches holds the rows whose
\* title the search argument matches (all rows: no search).

\* listing whose branch for regular users does not filter on the department
document_list_any_department(u, user_roles, type, status, matches) ==
    LET rows == {d \in DOMAIN docs : docs[d].type = type}
        scoped ==
            IF "admin" \in user_roles
            THEN {d \in rows : docs[d].status = "Approved"}
            ELSE IF "hod" \in user_roles
            THEN {d \in rows :
                     /\ docs[d].status \in {"Submitted", "Approved"}
                     /\ docs[d].department_id = users[u].department_id}
            ELSE {d \in rows : docs[d].created_by_id = u}
        filtered == IF status # "" THEN {d \in scoped : docs[d].status = status}
                    ELSE scoped
    IN filtered \cap matches

\* listing whose branch for hod does not filter on the status
document_list_any_status(u, user_roles, type, status, matches) ==
    LET rows == {d \in DOMAIN docs : docs[d].type = type}
        scoped ==
            IF "admin" \in user_roles
            THEN {d \in rows : docs[d].status = "Approved"}
            ELSE IF "hod" \in user_roles
            THEN {d \in rows :
                     docs[d].department_id = users[u].department_id}
            ELSE {d \in rows :
                     /\ docs[d].created_by_id = u
                     /\ docs[d].department_id = users[u].department_id}
        filtered == IF status # "" THEN {d \in scoped : docs[d].status = status}
                    ELSE scoped
    IN filtered \cap matches

\* listing that tests for hod before admin
document_list_hod_first(u, user_roles, type, status, matches) ==
    LET rows == {d \in DOMAIN docs : docs[d].type = type}
        scoped ==
            IF "hod" \in user_roles
            THEN {d \in rows :
                     /\ docs[d].status \in {"Submitted", "Approved"}
                     /\ docs[d].department_id = users[u].department_id}
            ELSE IF "admin" \in user_roles
            THEN {d \in rows : docs[d].status = "Approved"}
            ELSE {d \in rows :
                     /\ docs[d].created_by_id = u
                     /\ docs[d].department_id = users[u].department_id}
        filtered == IF status # "" THEN {d \in scoped : docs[d].status = status}
                    ELSE scoped
    IN filtered \cap matches

document_list(u, user_roles, type, status, matches) ==
    LET rows == {d \in DOMAIN docs : docs[d].type = type}
        scoped ==
            IF "admin" \in user_roles
            THEN {d \in rows : docs[d].status = "Approved"}
            ELSE IF "hod" \in user_roles
            THEN {d \in rows :
                     /\ docs[d].status \in {"Submitted", "Approved"}
                     /\ docs[d].department_id = users[u].department_id}
            ELSE {d \in rows :
                     /\ docs[d].created_by_id = u
                     /\ docs[d].department_id = users[u].department_id}
        filtered == IF status # "" THEN {d \in scoped : docs[d].status = status}
                    ELSE scoped
    IN filtered \cap matches

\* the role lists a logged-in user can hold
RoleSets == SUBSET {"admin", "hod", "emp"}

\* values of the status argument
StatusArgs == Statuses \cup {""}

\* ------------------------------------------------------ specifications
\* The requests user actor can send, on documents of the types in T with
\* the comments in C, while at most cap documents exist.  Each request is
\* handled in one piece (one request per mutation).
RequestsOf(actor, T, C, cap) ==
    \/ /\ Cardinality(DOMAIN docs) < cap
       /\ \E type \in T, dept_choice \in DepartmentChoices(actor),
             valid \in BOOLEAN :
             \E files \in IF valid THEN 0..MaxFiles ELSE {0} :
                 \E saved \in 0..files :
                     create(actor, type, dept_choice, valid, BlankRef,
                            files, saved)
    \/ \E d \in 1..cap, valid \in BOOLEAN :
          \E dept_choice \in IF valid THEN DepartmentChoices(actor)
                                       ELSE {None},
             files \in IF valid THEN 0..MaxFiles ELSE {0},
             replacing \in IF valid THEN BOOLEAN ELSE {FALSE} :
             \E saved \in 0..files,
                replaced \in IF replacing THEN 0..cap ELSE {0} :
                 edit(actor, d, dept_choice, valid, files, saved,
                      replacing, replaced)
    \/ \E d \in 1..cap : submit(actor, d)
    \/ \E d \in 1..cap, form_action \in FormActions \cup {""} :
          \E comments \in IF form_action = "" THEN {None} ELSE C :
              approve(actor, d, form_action, comments)
    \/ \E d \in 1..cap : delete(actor, d)
    \/ \E d \in 0..cap : delete_attachment(actor, d)

Next == \E actor \in UserIds : RequestsOf(actor, DocTypes, Comments, MaxDocs)

Spec == Init /\ [][Next]_vars

\* Two documents side by side, fewer users and comments.
FrameUsers == {"e1", "h1"}

FrameComments == {"ok"}

NextFrame ==
    \E actor \in FrameUsers :
        RequestsOf(actor, DocTypes, FrameComments, MaxDocs + 1)

SpecFrame == Init /\ [][NextFrame]_vars

\* ------------------------------------------- submit, statement by statement
\* nfa_submit run by several workers at once: each request loads the row
\* into its own session, tests and changes the loaded copy, and commit()
\* flushes the UPDATE and the INSERT in one transaction.

\* nfa = NFA.query.get_or_404(id)
submit_load(r, actor, d) ==
    /\ req[r].pc = "idle"
    /\ IF ~Exists(d)
       THEN req' = [req EXCEPT ![r] = [IdleReq EXCEPT
                                          !.pc = "done", !.route = "submit",
                                          !.actor = actor, !.doc = d,
                                          !.result = "not_found"]]
       ELSE req' = [req EXCEPT ![r] = [IdleReq EXCEPT
                                          !.pc = "loaded", !.route = "submit",
                                          !.actor = actor, !.doc = d,
                                          !.loaded = docs[d].status,
                                          !.loaded_remarks =
                                              docs[d].rejected_remarks,
                                          !.status = docs[d].status,
                                          !.remarks =
                                              docs[d].rejected_remarks]]
    /\ UNCHANGED <<dbvars, response>>

\* if nfa.status not in ['Draft', 'Rejected']: ... ; nfa.status = 'Submitted'
submit_check(r) ==
    /\ req[r].pc = "loaded"
    /\ req[r].route = "submit"
    /\ IF req[r].status \notin {"Draft", "Rejected"}
       THEN req' = [req EXCEPT ![r].pc = "done",
                               ![r].result = "submit_bad_status"]
       ELSE req' = [req EXCEPT ![r].pc = "dirty",
                               ![r].status = "Submitted"]
    /\ UNCHANGED <<dbvars, response>>

\* db.session.add(history); db.session.commit()
submit_commit(r) ==
    /\ req[r].pc = "dirty"
    /\ req[r].route = "submit"
    /\ Exists(req[r].doc)
    /\ docs' = [docs EXCEPT ![req[r].doc].status = req[r].status]
    /\ approval_history' =
           Append(approval_history,
                  HistoryRow("Submitted", req[r].actor, None, req[r].doc))
    /\ req' = [req EXCEPT ![r].pc = "done", ![r].result = "submitted"]
    /\ UNCHANGED <<users, attachments, response>>

\* nfa_approve, statement by statement.
\* nfa = NFA.query.get_or_404(id); form = ApprovalForm()
approve_load(r, actor, d, form_action, comments) ==
    /\ req[r].pc = "idle"
    /\ IF ~Exists(d)
       THEN req' = [req EXCEPT ![r] = [IdleReq EXCEPT
                                          !.pc = "done", !.route = "approve",
                                          !.actor = actor, !.doc = d,
                                          !.result = "not_found"]]
       ELSE req' = [req EXCEPT ![r] = [IdleReq EXCEPT
                                          !.pc = "loaded", !.route = "approve",
                                          !.actor = actor, !.doc = d,
                                          !.form_action = form_action,
                                          !.comments = comments,
                                          !.loaded = docs[d].status,
                                          !.loaded_remarks =
                                              docs[d].rejected_remarks,
                                          !.status = docs[d].status,
                                          !.remarks =
                                              docs[d].rejected_remarks]]
    /\ UNCHANGED <<dbvars, response>>

\* the test for Draft, form.validate_on_submit(), and the engine up to its
\* commit: history = ApprovalHistory(...); document_model.status = ...
approve_check(r) ==
    /\ req[r].pc = "loaded"
    /\ req[r].route = "approve"
    /\ Exists(req[r].doc)
    /\ IF req[r].status = "Draft"
       THEN req' = [req EXCEPT ![r].pc = "done",
                               ![r].result = "approve_refused_draft"]
       ELSE IF req[r].form_action \notin FormActions
       THEN req' = [req EXCEPT ![r].pc = "done", ![r].result = "form"]
       ELSE IF ~ConstructorAccepts(EngineFk(docs[req[r].doc].type))
       THEN req' = [req EXCEPT ![r].pc = "done",
                               ![r].result = "server_error"]
       ELSE IF req[r].form_action = "approve"
       THEN req' = [req EXCEPT ![r].pc = "dirty", ![r].status = "Approved"]
       ELSE req' = [req EXCEPT ![r].pc = "dirty", ![r].status = "Rejected",
                               ![r].remarks = req[r].comments]
    /\ UNCHANGED <<dbvars, response>>

\* db.session.commit() of the engine: the flush writes an UPDATE with the
\* columns whose value differs from the loaded one (none: no UPDATE) and
\* the INSERT of the history row, in one transaction
approve_commit(r) ==
    /\ req[r].pc = "dirty"
    /\ req[r].route = "approve"
    /\ Exists(req[r].doc)
    /\ docs' = [docs EXCEPT
                   ![req[r].doc].status =
                       IF req[r].status # req[r].loaded
                       THEN req[r].status ELSE @,
                   ![req[r].doc].rejected_remarks =
                       IF req[r].remarks # req[r].loaded_remarks
                       THEN req[r].remarks ELSE @]
    /\ approval_history' =
           Append(approval_history,
                  [action |-> req[r].status, approved_by_id |-> req[r].actor,
                   comments |-> req[r].comments,
                   fk |-> EngineFk(docs[req[r].doc].type),
                   doc |-> req[r].doc])
    /\ req' = [req EXCEPT ![r].pc = "done",
                          ![r].result = IF req[r].status = "Approved"
                                        THEN "approved" ELSE "rejected"]
    /\ UNCHANGED <<users, attachments, response>>

\* A database the sequential requests can produce: one document of e1 with
\* one attachment, still Draft, or submitted by e1 and rejected by h1.
InitConc ==
    /\ req = [r \in 1..MaxReqs |-> IdleReq]
    /\ users = InitUsers
    /\ response = "none"
    /\ \E type \in DocTypes, rejected \in BOOLEAN :
          /\ rejected => ConstructorAccepts(EngineFk(type))
          /\ docs = (1 :> [type |-> type,
                           status |-> IF rejected THEN "Rejected" ELSE "Draft",
                           reference_number |-> 1,
                           created_by_id |-> "e1",
                           department_id |-> "D1",
                           rejected_remarks |->
                               IF rejected THEN "no" ELSE None])
          /\ attachments = (1 :> 1)
          /\ approval_history =
                 IF rejected
                 THEN <<[action |-> "Submitted", approved_by_id |-> "e1",
                         comments |-> None, fk |-> SubmitFk[type], doc |-> 1],
                        [action |-> "Rejected", approved_by_id |-> "h1",
                         comments |-> "no", fk |-> SubmitFk[type], doc |-> 1]>>
                 ELSE <<>>

NextConc ==
    \E r \in 1..MaxReqs :
        \/ \E actor \in UserIds, d \in 1..MaxDocs : submit_load(r, actor, d)
        \/ submit_check(r)
        \/ submit_commit(r)
        \/ \E actor \in UserIds, d \in 1..MaxDocs,
              form_action \in FormActions \cup {""} :
              \E comments \in IF form_action = "" THEN {None} ELSE Comments :
                  approve_load(r, actor, d, form_action, comments)
        \/ approve_check(r)
        \/ approve_commit(r)

SpecConc == InitConc /\ [][NextConc]_vars

\* ---------------------------------------------------- user management
\* routes/admin.py: the users of SpecAdmin and the values its forms post
AdminUserIds == {"ad", "e1", "h1"}

FormRoles == {"admin", "emp"}

FormDepartments == {"D1", None}

\* request.form.getlist('roles'): a list of role ids, one id may repeat
RoleLists ==
    {<<>>} \cup {[i \in 1..n |-> r] : r \in FormRoles, n \in 1..MaxRoleRows}

Count(role_ids, r) == Cardinality({i \in DOMAIN role_ids : role_ids[i] = r})

\* for role_id in role_ids: user.roles.append(role), on a new user: one row
\* of user_roles per appended role (the table has no key)
RolesBag(role_ids) ==
    [r \in {role_ids[i] : i \in DOMAIN role_ids} |-> Count(role_ids, r)]

\* login_required and require_role(role_name): the session's user exists,
\* is active and holds the role
require_role(actor, role_name) ==
    /\ actor \in DOMAIN users
    /\ users[actor].is_active
    /\ has_role(actor, role_name)

\* rows of users joined with user_roles and roles, over the users in U:
\* is_active and Role.name == 'admin'
RECURSIVE JoinRows(_)
JoinRows(U) ==
    IF U = {} THEN 0
    ELSE LET u == CHOOSE x \in U : TRUE
         IN (IF users[u].is_active THEN CopiesIn("admin", users[u].roles)
             ELSE 0) + JoinRows(U \ {u})

\* User.query.filter_by(is_active=True).join(User.roles)
\*     .filter(Role.name == 'admin').count()
active_admins == JoinRows(DOMAIN users)

\* user_create; u is the posted username
user_create(actor, u, valid, department_id, role_ids) ==
    IF ~require_role(actor, "admin")
    THEN /\ Respond("forbidden")
         /\ UNCHANGED dbvars
    ELSE IF ~valid
    THEN /\ Respond("user_form")
         /\ UNCHANGED dbvars
    ELSE IF u \in DOMAIN users
    THEN /\ Respond("username_exists")
         /\ UNCHANGED dbvars
    ELSE /\ users' = (u :> [roles |-> RolesBag(role_ids),
                            department_id |-> department_id,
                            is_active |-> TRUE]) @@ users
         /\ Respond("user_created")
         /\ UNCHANGED <<docs, attachments, approval_history>>

\* user_edit.  The flush inserts the rows of the roles the user did not
\* hold and deletes the rows of the roles no longer posted; a DELETE that
\* matches more rows than roles removed raises StaleDataError.
user_edit(actor, u, department_id, is_active, role_ids, email_taken) ==
    IF ~require_role(actor, "admin")
    THEN /\ Respond("forbidden")
         /\ UNCHANGED dbvars
    ELSE IF u \notin DOMAIN users
    THEN /\ Respond("not_found")
         /\ UNCHANGED dbvars
    ELSE IF email_taken
    THEN /\ DOMAIN users # {u}
         /\ Respond("email_in_use")
         /\ UNCHANGED dbvars
    ELSE LET old    == users[u].roles
             posted == {role_ids[i] : i \in DOMAIN role_ids}
         IN IF \E r \in BagToSet(old) \ posted : CopiesIn(r, old) > 1
            THEN /\ Respond("server_error")
                 /\ UNCHANGED dbvars
            ELSE /\ users' =
                        [users EXCEPT ![u] =
                            [roles |->
                                 [r \in posted |->
                                     IF BagIn(r, old) THEN CopiesIn(r, old)
                                     ELSE Count(role_ids, r)],
                             department_id |-> department_id,
                             is_active |-> is_active]]
                 /\ Respond("user_updated")
                 /\ UNCHANGED <<docs, attachments, approval_history>>

\* user_toggle_active
user_toggle_active(actor, u) ==
    IF ~require_role(actor, "admin")
    THEN /\ Respond("forbidden")
         /\ UNCHANGED dbvars
    ELSE IF u \notin DOMAIN users
    THEN /\ Respond("not_found")
         /\ UNCHANGED dbvars
    ELSE IF /\ users[u].is_active
            /\ has_role(u, "admin")
            /\ active_admins <= 1
    THEN /\ Respond("only_admin")
         /\ UNCHANGED dbvars
    ELSE /\ users' = [users EXCEPT ![u].is_active = ~@]
         /\ Respond("user_toggled")
         /\ UNCHANGED <<docs, attachments, approval_history>>

\* user_delete.  db.session.delete(user) deletes the user's rows of
\* user_roles (StaleDataError when a role has more than one row), sets
\* created_by_id of his documents to NULL (IntegrityError: the column is
\* NOT NULL) and approved_by_id of his history rows to NULL.
user_delete(actor, u) ==
    IF ~require_role(actor, "admin")
    THEN /\ Respond("forbidden")
         /\ UNCHANGED dbvars
    ELSE IF u \notin DOMAIN users
    THEN /\ Respond("not_found")
         /\ UNCHANGED dbvars
    ELSE IF has_role(u, "admin") /\ active_admins <= 1
    THEN /\ Respond("only_admin")
         /\ UNCHANGED dbvars
    ELSE IF \/ \E r \in BagToSet(users[u].roles) :
                  CopiesIn(r, users[u].roles) > 1
            \/ \E d \in DOMAIN docs : docs[d].created_by_id = u
    THEN /\ Respond("server_error")
         /\ UNCHANGED dbvars
    ELSE /\ users' = [v \in DOMAIN users \ {u} |-> users[v]]
         /\ approval_history' =
                [i \in DOMAIN approval_history |->
                    IF approval_history[i].approved_by_id = u
                    THEN [approval_history[i] EXCEPT !.approved_by_id = None]
                    ELSE approval_history[i]]
         /\ Respond("user_deleted")
         /\ UNCHANGED <<docs, attachments>>

\* the user-management requests user actor can send
AdminRequestsOf(actor) ==
    \/ \E u \in AdminUserIds, valid \in BOOLEAN :
          \E department_id \in IF valid THEN FormDepartments ELSE {None},
             role_ids \in IF valid THEN RoleLists ELSE {<<>>} :
              user_create(actor, u, valid, department_id, role_ids)
    \/ \E u \in AdminUserIds, email_taken \in BOOLEAN :
          \E department_id \in IF email_taken THEN {None}
                               ELSE FormDepartments,
             is_active \in IF email_taken THEN {TRUE} ELSE BOOLEAN,
             role_ids \in IF email_taken THEN {<<>>} ELSE RoleLists :
              user_edit(actor, u, department_id, is_active, role_ids,
                        email_taken)
    \/ \E u \in AdminUserIds : user_toggle_active(actor, u)
    \/ \E u \in AdminUserIds : user_delete(actor, u)

\* a database with the administrator and one employee, no documents
InitAdmin ==
    /\ req = [r \in 1..MaxReqs |-> IdleReq]
    /\ users = [u \in {"ad", "e1"} |-> InitUsers[u]]
    /\ docs = [d \in {} |-> d]
    /\ attachments = [d \in {} |-> 0]
    /\ approval_history = <<>>
    /\ response = "none"

NextAdmin == \E actor \in AdminUserIds : AdminRequestsOf(actor)

SpecAdmin == InitAdmin /\ [][NextAdmin]_vars

\* --------------------------------------------------- reference numbers
\* Up to MaxRefDocs documents of two types, created with an empty, typed or
\* all-spaces reference number field, edited and deleted by their author.
RefTypes == {"NFA", "WorkOrder"}

RefInputs == {BlankRef, TypedRef, SpacesRef}

RefRequestsOf(actor) ==
    \/ /\ Cardinality(DOMAIN docs) < MaxRefDocs
       /\ \E type \in RefTypes, reference_number \in RefInputs :
             create(actor, type, None, TRUE, reference_number, 1, 1)
    \/ \E d \in 1..MaxRefDocs :
          edit(actor, d, None, TRUE, 0, 0, FALSE, 0)
    \/ \E d \in 1..MaxRefDocs : delete(actor, d)

NextRef == RefRequestsOf("e1")

SpecRef == Init /\ [][NextRef]_vars

\* ------------------------------ the last-admin guard, statement by statement
\* user_toggle_active and user_delete run by several workers at once: each
\* request loads the user into its own session, counts the active admins
\* with a query of its own, changes the loaded copy, and commit() flushes
\* the UPDATE or DELETE.  No statement locks the rows that were counted.

\* user = User.query.get_or_404(user_id); the guard with its count query;
\* user.is_active = not user.is_active
user_toggle_active_check(r, actor, u) ==
    /\ req[r].pc = "idle"
    /\ LET start == [IdleReq EXCEPT !.route = "toggle", !.actor = actor,
                                    !.user = u]
       IN IF ~require_role(actor, "admin")
          THEN req' = [req EXCEPT ![r] = [start EXCEPT
                                             !.pc = "done",
                                             !.result = "forbidden"]]
          ELSE IF u \notin DOMAIN users
          THEN req' = [req EXCEPT ![r] = [start EXCEPT
                                             !.pc = "done",
                                             !.result = "not_found"]]
          ELSE IF /\ users[u].is_active
                  /\ has_role(u, "admin")
                  /\ active_admins <= 1
          THEN req' = [req EXCEPT ![r] = [start EXCEPT
                                             !.pc = "done",
                                             !.result = "only_admin"]]
          ELSE req' = [req EXCEPT ![r] = [start EXCEPT
                                             !.pc = "dirty",
                                             !.status =
                                                 IF users[u].is_active
                                                 THEN "inactive"
                                                 ELSE "active"]]
    /\ UNCHANGED <<dbvars, response>>

\* db.session.commit() of user_toggle_active: UPDATE users SET is_active
\* WHERE id = u; StaleDataError when the row is gone
user_toggle_active_commit(r) ==
    /\ req[r].pc = "dirty"
    /\ req[r].route = "toggle"
    /\ IF req[r].user \notin DOMAIN users
       THEN /\ req' = [req EXCEPT ![r].pc = "done",
                                  ![r].result = "server_error"]
            /\ UNCHANGED users
       ELSE /\ users' = [users EXCEPT
                             ![req[r].user].is_active =
                                 (req[r].status = "active")]
            /\ req' = [req EXCEPT ![r].pc = "done",
                                  ![r].result = "user_toggled"]
    /\ UNCHANGED <<docs, attachments, approval_history, response>>

\* user = User.query.get_or_404(user_id); the guard with its count query;
\* db.session.delete(user)
user_delete_check(r, actor, u) ==
    /\ req[r].pc = "idle"
    /\ LET start == [IdleReq EXCEPT !.route = "delete", !.actor = actor,
                                    !.user = u]
       IN IF ~require_role(actor, "admin")
          THEN req' = [req EXCEPT ![r] = [start EXCEPT
                                             !.pc = "done",
                                             !.result = "forbidden"]]
          ELSE IF u \notin DOMAIN users
          THEN req' = [req EXCEPT ![r] = [start EXCEPT
                                             !.pc = "done",
                                             !.result = "not_found"]]
          ELSE IF has_role(u, "admin") /\ active_admins <= 1
          THEN req' = [req EXCEPT ![r] = [start EXCEPT
                                             !.pc = "done",
                                             !.result = "only_admin"]]
          ELSE req' = [req EXCEPT ![r] = [start EXCEPT !.pc = "dirty"]]
    /\ UNCHANGED <<dbvars, response>>

\* db.session.commit() of user_delete: DELETE of the user's rows of
\* user_roles and of the user; StaleDataError when the rows are gone or a
\* role has more than one row
user_delete_commit(r) ==
    /\ req[r].pc = "dirty"
    /\ req[r].route = "delete"
    /\ IF \/ req[r].user \notin DOMAIN users
          \/ \E role \in BagToSet(users[req[r].user].roles) :
                CopiesIn(role, users[req[r].user].roles) > 1
          \/ \E d \in DOMAIN docs : docs[d].created_by_id = req[r].user
       THEN /\ req' = [req EXCEPT ![r].pc = "done",
                                  ![r].result = "server_error"]
            /\ UNCHANGED <<users, approval_history>>
       ELSE /\ users' = [v \in DOMAIN users \ {req[r].user} |-> users[v]]
            /\ approval_history' =
                   [i \in DOMAIN approval_history |->
                       IF approval_history[i].approved_by_id = req[r].user
                       THEN [approval_history[i] EXCEPT
                                !.approved_by_id = None]
                       ELSE approval_history[i]]
            /\ req' = [req EXCEPT ![r].pc = "done",
                                  ![r].result = "user_deleted"]
    /\ UNCHANGED <<docs, attachments, response>>

\* the two users who hold the admin role when the requests arrive
GuardAdmins == {"ad", "e1"}

\* a database user_edit can produce: ad and e1 are active and hold the
\* admin role (one row of user_roles each), h1 is the head of D1
InitGuard ==
    /\ req = [r \in 1..MaxReqs |-> IdleReq]
    /\ users = [u \in AdminUserIds |->
                   IF u \in GuardAdmins
                   THEN [InitUsers[u] EXCEPT !.roles = SetToBag({"admin"})]
                   ELSE InitUsers[u]]
    /\ docs = [d \in {} |-> d]
    /\ attachments = [d \in {} |-> 0]
    /\ approval_history = <<>>
    /\ response = "none"

NextGuard ==
    \E r \in 1..MaxReqs :
        \/ \E actor \in AdminUserIds, u \in AdminUserIds :
              user_toggle_active_check(r, actor, u)
        \/ user_toggle_active_commit(r)
        \/ \E actor \in AdminUserIds, u \in AdminUserIds :
              user_delete_check(r, actor, u)
        \/ user_delete_commit(r)

SpecGuard == InitGuard /\ [][NextGuard]_vars

\* ------------------------------------- documents and user management
\* The document requests of e1 and h1 on one NFA, next to the
\* administrator's deletes of users.

\* login_required: the session's user exists and is active
login_required(actor) ==
    /\ actor \in DOMAIN users
    /\ users[actor].is_active

NextLedger ==
    \/ \E actor \in FrameUsers :
          /\ login_required(actor)
          /\ RequestsOf(actor, {"NFA"}, FrameComments, MaxDocs)
    \/ \E u \in UserIds : user_delete("ad", u)

SpecLedger == Init /\ [][NextLedger]_vars

\* ================================================================ claims

Last(h) == h[Len(h)]

\* the actor may decide on document d: admin, or hod of d's department
MayDecide(a, d) ==
    \/ has_role(a, "admin")
    \/ has_role(a, "hod") /\ docs[d].department_id = users[a].department_id

\* the actor may submit document d: its owner, or holder of edit-all
MaySubmit(a, d) ==
    \/ docs[d].created_by_id = a
    \/ has_permission(a, "document_edit_all")

LegalEdges == {<<"Draft", "Submitted">>, <<"Rejected", "Submitted">>,
               <<"Submitted", "Approved">>, <<"Submitted", "Rejected">>}

\* C1: every change of a document's status follows one of the four edges
\* Draft->Submitted, Rejected->Submitted, Submitted->Approved,
\* Submitted->Rejected, and a decision (a row Approved or Rejected) is
\* recorded only for a document whose status is Submitted.
C1_FourEdges ==
    [][/\ \A d \in DOMAIN docs \cap DOMAIN docs' :
              docs'[d].status # docs[d].status =>
                  <<docs[d].status, docs'[d].status>> \in LegalEdges
       /\ (/\ Len(approval_history') = Len(approval_history) + 1
           /\ Last(approval_history').action \in {"Approved", "Rejected"})
          => docs[Last(approval_history').doc].status = "Submitted"]_vars

\* C2: for each of the six document types, approving a Submitted document
\* sets its status to Approved and appends exactly one history row with
\* action Approved, approved_by the actor and the supplied comments, linked
\* to that document.
C2_ApproveAllTypes ==
    [][\A d \in DOMAIN docs, a \in UserIds, c \in Comments :
          (docs[d].status = "Submitted" /\ approve(a, d, "approve", c)) =>
              /\ docs' = [docs EXCEPT ![d].status = "Approved"]
              /\ approval_history' =
                     Append(approval_history,
                            [action |-> "Approved", approved_by_id |-> a,
                             comments |-> c, fk |-> SubmitFk[docs[d].type],
                             doc |-> d])]_vars

\* C3: rejecting a Submitted document sets status Rejected, sets
\* rejected_remarks to the supplied comments and appends exactly one history
\* row with action Rejected; a later submit of that Rejected document moves
\* it to Submitted.
C3_RejectThenResubmit ==
    [][\A d \in DOMAIN docs, a \in UserIds :
          /\ \A c \in Comments :
                (docs[d].status = "Submitted" /\ approve(a, d, "reject", c)) =>
                    /\ docs' = [docs EXCEPT ![d].status = "Rejected",
                                            ![d].rejected_remarks = c]
                    /\ approval_history' =
                           Append(approval_history,
                                  [action |-> "Rejected", approved_by_id |-> a,
                                   comments |-> c,
                                   fk |-> SubmitFk[docs[d].type], doc |-> d])
          /\ (docs[d].status = "Rejected" /\ submit(a, d)) =>
                 docs'[d].status = "Submitted"]_vars

\* C4: an approve or reject request by an actor who is neither admin nor hod
\* of the document's department leaves the document's status and history
\* unchanged.
C4_DecisionNeedsCapability ==
    [][\A d \in DOMAIN docs, a \in UserIds, fa \in FormActions, c \in Comments :
          (~MayDecide(a, d) /\ approve(a, d, fa, c)) =>
              /\ docs' = docs
              /\ approval_history' = approval_history]_vars

\* C5: submitting a document that has zero attachments fails and leaves its
\* status and history unchanged.
C5_SubmitNeedsAttachment ==
    [][\A d \in DOMAIN docs, a \in UserIds :
          (attachments[d] = 0 /\ submit(a, d)) =>
              /\ response' # "submitted"
              /\ docs' = docs
              /\ approval_history' = approval_history]_vars

\* C6: submitting a Draft or Rejected document that has an attachment sets
\* its status to Submitted and appends exactly one history row with action
\* Submitted and approved_by the actor, linked to that document; nothing else
\* of that document and no other document or history row changes.
C6_SubmitEffect ==
    [][\A d \in DOMAIN docs, a \in UserIds :
          (/\ docs[d].status \in {"Draft", "Rejected"}
           /\ attachments[d] >= 1
           /\ submit(a, d)) =>
              /\ docs' = [docs EXCEPT ![d].status = "Submitted"]
              /\ approval_history' =
                     Append(approval_history,
                            [action |-> "Submitted", approved_by_id |-> a,
                             comments |-> None, fk |-> SubmitFk[docs[d].type],
                             doc |-> d])
              /\ attachments' = attachments
              /\ response' = "submitted"]_vars

\* C6 witness: next to another document, a document rejected earlier has
\* been submitted again.
C6_Witness ==
    /\ response = "submitted"
    /\ \E d \in DOMAIN docs, e \in DOMAIN docs :
          /\ d # e
          /\ docs[d].status = "Submitted"
          /\ docs[d].rejected_remarks # None
          /\ attachments[d] >= 1
          /\ Last(approval_history).doc = d
          /\ Last(approval_history).action = "Submitted"

\* C7: a submit request by an actor who is neither the document's owner nor
\* a holder of the edit-all capability leaves the document unchanged.
C7_SubmitOwnerOnly ==
    [][\A d \in DOMAIN docs, a \in UserIds :
          (~MaySubmit(a, d) /\ submit(a, d)) =>
              /\ docs' = docs
              /\ approval_history' = approval_history]_vars

\* C8: once a document is Approved, no request of a user without the admin
\* role changes its status (or removes it).
C8_ApprovedTerminal ==
    [][(\E d \in DOMAIN docs :
           /\ docs[d].status = "Approved"
           /\ (d \notin DOMAIN docs' \/ docs'[d].status # "Approved"))
       => ~ \E a \in UserIds :
              /\ ~has_role(a, "admin")
              /\ RequestsOf(a, DocTypes, Comments, MaxDocs)]_vars

\* C9: approve or reject on a Draft document fails with the state error and
\* leaves status, rejected_remarks and history unchanged.
C9_DraftNotDecidable ==
    [][\A d \in DOMAIN docs, a \in UserIds, fa \in FormActions, c \in Comments :
          (docs[d].status = "Draft" /\ approve(a, d, fa, c)) =>
              /\ response' = "approve_refused_draft"
              /\ docs' = docs
              /\ approval_history' = approval_history]_vars

\* C9 witness: a decision on a Draft document has been refused.
C9_Witness ==
    /\ response = "approve_refused_draft"
    /\ \E d \in DOMAIN docs :
          /\ docs[d].status = "Draft"
          /\ HistoryOf(approval_history, d) = <<>>

\* C10: two concurrent submit requests on the same document do not both
\* succeed: the second observes the post-transition state and fails.
C10_OneSubmitWins ==
    \A r1 \in 1..MaxReqs, r2 \in 1..MaxReqs :
        (/\ r1 # r2
         /\ req[r1].doc = req[r2].doc
         /\ req[r1].result = "submitted")
        => req[r2].result # "submitted"

\* "No run of Spec reaches the rejected database SpecConc starts from":
\* TLC refutes this under Spec, so InitConc holds only reachable databases
\* (its Draft databases are those right after a create).
ConcInitNotReached ==
    ~ \E d \in DOMAIN docs :
         /\ docs[d].status = "Rejected"
         /\ docs[d].created_by_id = "e1"
         /\ docs[d].rejected_remarks = "no"
         /\ attachments[d] = 1
         /\ Len(approval_history) = 2
         /\ approval_history[1].approved_by_id = "e1"
         /\ approval_history[2].approved_by_id = "h1"

\* C11: in every committed state, for every document whose status is not
\* Draft, the most recently appended history row of that document has the
\* document's status as its action.
C11_StatusMatchesLedger ==
    \A d \in DOMAIN docs :
        docs[d].status # "Draft" =>
            /\ HistoryOf(approval_history, d) # <<>>
            /\ Last(HistoryOf(approval_history, d)).action = docs[d].status

\* C12: the status of every document is always one of Draft, Submitted,
\* Approved, Rejected, whatever requests are made, and a document that a
\* request creates starts in Draft.
C12_StatusDomain ==
    [][\A d \in DOMAIN docs' :
          /\ docs'[d].status \in Statuses
          /\ d \notin DOMAIN docs => docs'[d].status = "Draft"]_vars

\* C12 witness: a document has been submitted, decided and decided again
\* (rejected last).
C12_Witness ==
    /\ response = "rejected"
    /\ \E d \in DOMAIN docs :
          /\ docs[d].status = "Rejected"
          /\ Len(HistoryOf(approval_history, d)) = 3

\* C13: in every reachable state a document whose status is Draft has no
\* history row.
C13_DraftHasNoHistory ==
    \A d \in DOMAIN docs :
        docs[d].status = "Draft" => HistoryOf(approval_history, d) = <<>>

\* C13 witness: a Draft document stands next to a document that has history
\* rows.
C13_Witness ==
    \E d \in DOMAIN docs, e \in DOMAIN docs :
        /\ d # e
        /\ docs[d].status = "Draft"
        /\ HistoryOf(approval_history, d) = <<>>
        /\ Len(HistoryOf(approval_history, e)) >= 2

\* an edit request of user a on document d, with any form contents
EditRequest(a, d) ==
    \E valid \in BOOLEAN, dept_choice \in DepartmentChoices(a),
       files \in 0..MaxFiles, replacing \in BOOLEAN :
        \E saved \in 0..files, replaced \in 0..(MaxDocs + 1) :
            edit(a, d, dept_choice, valid, files, saved, replacing, replaced)

\* C14: an update by a user without the admin role succeeds only on a Draft
\* or Rejected document: on a Submitted or Approved document it fails and
\* leaves the document's fields and attachments unchanged; an update by an
\* admin is not refused for the document's status.
C14_EditOnlyDraftOrRejected ==
    [][\A d \in DOMAIN docs, a \in UserIds :
          /\ (/\ docs[d].status \in {"Submitted", "Approved"}
              /\ ~has_role(a, "admin")
              /\ EditRequest(a, d)) =>
                 /\ response' # "edited"
                 /\ docs' = docs
                 /\ attachments' = attachments
          /\ (has_role(a, "admin") /\ EditRequest(a, d)) =>
                 response' # "edit_refused_approved"]_vars

\* C15: a user who holds neither the admin role nor the edit-all capability
\* can update only documents he created: his update request on a document
\* created by another user leaves that document unchanged.
C15_EditOwnerOnly ==
    [][\A d \in DOMAIN docs, a \in UserIds :
          (/\ docs[d].created_by_id # a
           /\ ~has_role(a, "admin")
           /\ ~has_permission(a, "document_edit_all")
           /\ EditRequest(a, d)) =>
              /\ response' # "edited"
              /\ docs' = docs
              /\ attachments' = attachments]_vars

\* C16: a delete of an Approved document by a user without the admin role
\* fails and leaves the document, its attachments and its history rows as
\* they were; a delete by an admin removes the document in any status.
C16_DeleteApprovedNeedsAdmin ==
    [][\A d \in DOMAIN docs, a \in UserIds :
          /\ (/\ docs[d].status = "Approved"
              /\ ~has_role(a, "admin")
              /\ delete(a, d)) =>
                 /\ response' = "delete_refused_approved"
                 /\ docs' = docs
                 /\ attachments' = attachments
                 /\ approval_history' = approval_history
          /\ (has_role(a, "admin") /\ delete(a, d)) =>
                 /\ response' = "deleted"
                 /\ d \notin DOMAIN docs']_vars

\* C16 witness: a delete of an Approved document with an attachment has been
\* refused.
C16_Witness ==
    /\ response = "delete_refused_approved"
    /\ \E d \in DOMAIN docs :
          /\ docs[d].status = "Approved"
          /\ attachments[d] >= 1
          /\ Last(HistoryOf(approval_history, d)).action = "Approved"

\* C17: a delete request by a user who is neither the document's author nor
\* an admin leaves the document in place, whatever its status.
C17_DeleteAuthorOrAdmin ==
    [][\A d \in DOMAIN docs, a \in UserIds :
          (/\ docs[d].created_by_id # a
           /\ ~has_role(a, "admin")
           /\ delete(a, d)) =>
              /\ d \in DOMAIN docs'
              /\ docs'[d] = docs[d]]_vars

\* C18: after a successful delete no attachment row and no history row of
\* the deleted document remains, and the documents, attachments and history
\* rows of every other document are unchanged.
C18_DeleteCascades ==
    [][\A d \in DOMAIN docs, a \in UserIds :
          (delete(a, d) /\ response' = "deleted") =>
              /\ d \notin DOMAIN docs'
              /\ d \notin DOMAIN attachments'
              /\ HistoryOf(approval_history', d) = <<>>
              /\ \A e \in DOMAIN docs \ {d} :
                    /\ e \in DOMAIN docs'
                    /\ docs'[e] = docs[e]
                    /\ attachments'[e] = attachments[e]
                    /\ HistoryOf(approval_history', e)
                           = HistoryOf(approval_history, e)]_vars

\* C18 witness: the first document has been deleted; the second one is
\* still there with its attachment and its history rows.
C18_Witness ==
    /\ response = "deleted"
    /\ DOMAIN docs = {2}
    /\ attachments[2] >= 1
    /\ Len(HistoryOf(approval_history, 2)) >= 2

\* the active users who hold the admin role
ActiveAdmins ==
    {u \in DOMAIN users : users[u].is_active /\ has_role(u, "admin")}

\* C19: starting with an active admin, no sequence of user-management
\* requests (create, edit, toggle, delete) reaches a state without an active
\* user who holds the admin role.
C19_AlwaysAnActiveAdmin == ActiveAdmins # {}

\* C20: when exactly one active user holds the admin role, a delete or a
\* toggle request on that user fails: afterwards the user still exists, is
\* still active and still holds the admin role.
C20_LastAdminStays ==
    [][\A u \in DOMAIN users, a \in AdminUserIds :
          (/\ ActiveAdmins = {u}
           /\ (user_toggle_active(a, u) \/ user_delete(a, u))) =>
              /\ response' \notin {"user_toggled", "user_deleted"}
              /\ u \in DOMAIN users'
              /\ users'[u].is_active
              /\ "admin" \in BagToSet(users'[u].roles)]_vars

\* C21: the listing of a user who holds the emp role (and neither hod nor
\* admin) returns, for every document type and every status and title
\* filter, only documents he created that belong to his department.
C21_EmpListing ==
    \A u \in UserIds, R \in RoleSets, type \in DocTypes, status \in StatusArgs,
       matches \in SUBSET DOMAIN docs :
        ("emp" \in R /\ "hod" \notin R /\ "admin" \notin R) =>
            \A d \in document_list(u, R, type, status, matches) :
                /\ docs[d].created_by_id = u
                /\ docs[d].department_id = users[u].department_id

\* C21 witness: the employee's listing returns his document while it is
\* Submitted.
C21_Witness ==
    \E type \in DocTypes :
        \E d \in document_list("e1", BagToSet(users["e1"].roles), type,
                               "Submitted", DOMAIN docs) :
            docs[d].created_by_id = "e1"

\* C22: the listing of a user who holds the hod role (and not admin)
\* returns, for every status and title filter, only documents whose status
\* is Submitted or Approved and whose department is his.
C22_HodListing ==
    \A u \in UserIds, R \in RoleSets, type \in DocTypes, status \in StatusArgs,
       matches \in SUBSET DOMAIN docs :
        ("hod" \in R /\ "admin" \notin R) =>
            \A d \in document_list(u, R, type, status, matches) :
                /\ docs[d].status \in {"Submitted", "Approved"}
                /\ docs[d].department_id = users[u].department_id

\* C22 witness: the listing of the head of D1 returns an Approved document
\* of D1.
C22_Witness ==
    \E type \in DocTypes :
        \E d \in document_list("h1", BagToSet(users["h1"].roles), type, "",
                               DOMAIN docs) :
            docs[d].status = "Approved"

\* C23: the listing of a user who holds the admin role, alone or with hod
\* or emp, returns only Approved documents whatever the filters; with a
\* status filter other than Approved it returns nothing.
C23_AdminListing ==
    \A u \in UserIds, R \in RoleSets, type \in DocTypes, status \in StatusArgs,
       matches \in SUBSET DOMAIN docs :
        "admin" \in R =>
            LET listed == document_list(u, R, type, status, matches)
            IN /\ \A d \in listed : docs[d].status = "Approved"
               /\ status \notin {"", "Approved"} => listed = {}
               /\ status \in {"", "Approved"} =>
                      listed = {d \in matches : /\ docs[d].type = type
                                                /\ docs[d].status = "Approved"}

\* C23 witness: the administrator's listing returns an Approved document of
\* department D1, not his own department.
C23_Witness ==
    \E type \in DocTypes :
        \E d \in document_list("ad", BagToSet(users["ad"].roles), type,
                               "Approved", DOMAIN docs) :
            docs[d].department_id = "D1"

\* C24: in every reachable state no two existing documents of one type
\* share a reference number.
C24_ReferenceUnique ==
    \A d \in DOMAIN docs, e \in DOMAIN docs :
        (d # e /\ docs[d].type = docs[e].type) =>
            docs[d].reference_number # docs[e].reference_number

\* C24 witness: after the delete of the first document of a type, the
\* generated number collided with the number of the second one, which is
\* still the only document of its type.
C24_Witness ==
    /\ response = "server_error"
    /\ \E d \in DOMAIN docs :
          /\ docs[d].reference_number = 2
          /\ RowsOfType(docs[d].type) = {d}

C26_SequenceIncreases ==
    [][\A type \in RefTypes :
          (create("e1", type, None, TRUE, BlankRef, 1, 1)
           /\ response' = "created") =>
              \A d \in DOMAIN docs', e \in RowsOfType(type) :
                  (d \notin DOMAIN docs /\ docs[e].reference_number > 0) =>
                      docs'[d].reference_number > docs[e].reference_number]_vars

IsPrefix(s, t) == Len(s) <= Len(t) /\ SubSeq(t, 1, Len(s)) = s

\* C27: the ledger is append-only: for every document that exists before
\* and after a step, its history rows before the step are a prefix of its
\* history rows after the step.
C27_LedgerAppendOnly ==
    [][\A d \in DOMAIN docs \cap DOMAIN docs' :
          IsPrefix(HistoryOf(approval_history, d),
                   HistoryOf(approval_history', d))]_vars


\* C28: rejected_remarks is written by a rejection only and is never
\* emptied: a step that changes the rejected_remarks of a document is a
\* rejection of that document and stores the remark of the Rejected row it
\* appends; create, edit, submit and approve leave the column as it was.
C28_RemarksOnlyByRejection ==
    [][\A d \in DOMAIN docs \cap DOMAIN docs' :
          /\ docs[d].rejected_remarks # None
                 => docs'[d].rejected_remarks # None
          /\ docs'[d].rejected_remarks # docs[d].rejected_remarks
                 => /\ response' = "rejected"
                    /\ docs'[d].status = "Rejected"
                    /\ Len(approval_history') = Len(approval_history) + 1
                    /\ Last(approval_history').doc = d
                    /\ Last(approval_history').action = "Rejected"
                    /\ Last(approval_history').comments
                           = docs'[d].rejected_remarks]_vars

\* a rejected document was approved afterwards and still has its remark
C28_Witness ==
    \E d \in DOMAIN docs :
        /\ docs[d].status = "Approved"
        /\ docs[d].rejected_remarks # None
        /\ response = "approved"


\* C29: an edit changes business fields only: after an edit request on a
\* document, successful or refused, by any actor, the row is still there
\* under the same id with the same created_by, reference_number, status
\* and rejected_remarks, and the approval history is unchanged.
C29_EditKeepsIdentity ==
    [][LET kept == /\ DOMAIN docs' = DOMAIN docs
                   /\ \A e \in DOMAIN docs :
                         /\ docs'[e].type = docs[e].type
                         /\ docs'[e].created_by_id = docs[e].created_by_id
                         /\ docs'[e].reference_number
                                = docs[e].reference_number
                         /\ docs'[e].status = docs[e].status
                         /\ docs'[e].rejected_remarks
                                = docs[e].rejected_remarks
                   /\ approval_history' = approval_history
       IN  \/ kept
           \/ ~ \E d \in DOMAIN docs, a \in UserIds :
                   /\ response' \in {"edited", "edit_refused_approved",
                                      "form", "attachment_required"}
                   /\ EditRequest(a, d)]_vars

\* a rejected document, with its remark and its history, was edited
C29_Witness ==
    /\ response = "edited"
    /\ \E d \in DOMAIN docs :
          /\ docs[d].status = "Rejected"
          /\ docs[d].rejected_remarks # None
          /\ Len(HistoryOf(approval_history, d)) >= 2


\* a create request of user a, of any document type and form contents
CreateRequest(a) ==
    \E type \in DocTypes, dept_choice \in DepartmentChoices(a),
       valid \in BOOLEAN, files \in 0..MaxFiles :
        \E saved \in 0..files :
            create(a, type, dept_choice, valid, BlankRef, files, saved)

\* C30: a user holding the hod role cannot create documents: a create
\* request by such a user, of any of the six types, adds no document and
\* no attachment.
C30_HodCannotCreate ==
    [][\A a \in UserIds :
          has_role(a, "hod") =>
              \/ /\ docs' = docs
                 /\ attachments' = attachments
              \/ ~CreateRequest(a)]_vars

\* a hod's create request was refused and the tables are still empty
C30_Witness ==
    /\ response = "create_refused_hod"
    /\ docs = [d \in {} |-> d]


\* C31: every successful create yields a document in Draft status, owned
\* by the actor, with at least one attachment row and no history row; a
\* create whose files are all refused by save_uploaded_file commits no
\* document without attachments.
C31_CreateHasAttachment ==
    [][response' = "created" =>
          \A d \in DOMAIN docs' \ DOMAIN docs :
              /\ docs'[d].status = "Draft"
              /\ attachments'[d] >= 1
              /\ HistoryOf(approval_history', d) = <<>>
              /\ \A a \in UserIds :
                    CreateRequest(a) => docs'[d].created_by_id = a]_vars


\* C32: a submit request on a Submitted or Approved document is answered
\* with the state error and changes nothing: status, rejected_remarks and
\* the history rows (and every other row) are as before.
C32_SubmitBadStatusRefused ==
    [][\A d \in DOMAIN docs, a \in UserIds :
          (/\ docs[d].status \in {"Submitted", "Approved"}
           /\ submit(a, d)) =>
              /\ response' = "submit_bad_status"
              /\ docs' = docs
              /\ approval_history' = approval_history
              /\ attachments' = attachments]_vars

\* a submit request on an Approved document was refused
C32_Witness ==
    /\ response = "submit_bad_status"
    /\ \E d \in DOMAIN docs :
          /\ docs[d].status = "Approved"
          /\ Len(HistoryOf(approval_history, d)) >= 2


\* C33: no document type has a dead-end Submitted state: for a Submitted
\* document of any of the six types, an approve request and a reject
\* request by a hod of its department complete and move the document to
\* Approved and to Rejected.
C33_SubmittedNotDeadEnd ==
    [][\A d \in DOMAIN docs, a \in UserIds, c \in Comments :
          (/\ docs[d].status = "Submitted"
           /\ has_role(a, "hod")
           /\ users[a].department_id = docs[d].department_id) =>
              /\ approve(a, d, "approve", c) =>
                    (response' = "approved" /\ docs'[d].status = "Approved")
              /\ approve(a, d, "reject", c) =>
                    (response' = "rejected" /\ docs'[d].status = "Rejected")]_vars


\* number of rows of history h whose action is in the set A
CountActions(h, A) == Len(SelectSeq(h, LAMBDA row : row.action \in A))

\* C34: each submission receives at most one decision: for every document
\* the rows with action Approved or Rejected are at most as many as the
\* rows with action Submitted, and every Approved or Rejected row directly
\* follows a Submitted row in the document's history.
C34_OneDecisionPerSubmission ==
    \A d \in DOMAIN docs :
        LET h == HistoryOf(approval_history, d)
        IN /\ CountActions(h, {"Approved", "Rejected"})
                  <= CountActions(h, {"Submitted"})
           /\ \A i \in 1..Len(h) :
                 h[i].action \in {"Approved", "Rejected"} =>
                     (i > 1 /\ h[i - 1].action = "Submitted")


\* C35: an edit of document d, whatever its attachment-replacement inputs,
\* leaves the attachments of every other document as they were.
C35_EditKeepsOtherAttachments ==
    [][\A d \in DOMAIN docs :
          \/ \A e \in DOMAIN docs \ {d} :
                /\ e \in DOMAIN attachments'
                /\ attachments'[e] = attachments[e]
          \/ ~ \E a \in FrameUsers : EditRequest(a, d)]_vars


\* C36: an attachment-delete request by a user without the admin role on an
\* attachment of an Approved document leaves the attachment in place.
C36_ApprovedAttachmentsKept ==
    [][\A d \in DOMAIN docs, a \in UserIds :
          (/\ docs[d].status = "Approved"
           /\ ~has_role(a, "admin")
           /\ delete_attachment(a, d)) =>
              attachments'[d] = attachments[d]]_vars


\* the requests that deactivated or deleted their target
Succeeded == {r \in 1..MaxReqs : req[r].result \in {"user_toggled", "user_deleted"}}

\* C37: the last-admin guard holds under concurrency: with two active
\* admins, two concurrent deactivate or delete requests that target one of
\* them each do not both succeed, and an active admin remains under every
\* interleaving.
C37_GuardUnderConcurrency ==
    /\ ActiveAdmins # {}
    /\ ~ \E r \in Succeeded, s \in Succeeded :
           /\ req[r].user \in GuardAdmins
           /\ req[s].user \in GuardAdmins
           /\ req[r].user # req[s].user


\* C38: a delete of user u by an administrator is refused only when u is
\* the sole active admin: whenever an active user holding the admin role
\* remains after removing u, the delete succeeds and u is gone.
C38_DeleteRefusedOnlyForLastAdmin ==
    [][\A u \in DOMAIN users, a \in AdminUserIds :
          (/\ require_role(a, "admin")
           /\ ActiveAdmins \ {u} # {}
           /\ user_delete(a, u)) =>
              /\ response' = "user_deleted"
              /\ u \notin DOMAIN users']_vars


\* C39: a create that leaves the reference number blank always obtains a
\* free number: after any sequence of creates (generated or typed numbers)
\* and deletes it succeeds, and the number of the new document differs
\* from the number of every other document of its type.
C39_GeneratedNumberIsFree ==
    [][\A type \in RefTypes :
          create("e1", type, None, TRUE, BlankRef, 1, 1) =>
              /\ response' = "created"
              /\ \A d \in DOMAIN docs' \ DOMAIN docs, e \in DOMAIN docs :
                    docs[e].type = type =>
                        docs'[d].reference_number # docs[e].reference_number]_vars

====
